---------------------------- MODULE Spec2Model ----------------------------
(***************************************************************************)
(* The Sparkle appcast tools of Inline's macOS release pipeline:           *)
(*   scripts/macos/update_appcast.py   (the Feed Updater)                  *)
(*   scripts/macos/validate_appcast.py (the Feed Validator)                *)
(*                                                                         *)
(* Strings are TLA+ strings (TLC evaluates Len, SubSeq and \o on them).    *)
(* Python's None is the empty tuple and a present value x is <<x>>, so an  *)
(* absent text and the empty text "" stay different values.  An XML        *)
(* element is a record [tag, text, attrib, children] as in ElementTree.    *)
(***************************************************************************)
EXTENDS Integers, Sequences, FiniteSets, TLC

VARIABLES
    appcast,      \* the file at APPCAST_PATH (the existing feed document)
    output,       \* the file at APPCAST_OUTPUT
    run,          \* the last Feed Updater process: its inputs, exit code, effects
    validation,   \* the last Feed Validator process: its arguments, exit code, stderr
    runs          \* number of Feed Updater processes started so far

vars == <<appcast, output, run, validation, runs>>

-----------------------------------------------------------------------------
(* Python values *)

None == <<>>
Some(x) == <<x>>
IsNone(o) == o = <<>>
Val(o) == o[1]

\* (x or d) for an optional string x: None and "" are both falsy
OrStr(o, d) == IF IsNone(o) \/ Val(o) = "" THEN d ELSE Val(o)

\* bool(x) for an optional string
Truthy(o) == ~IsNone(o) /\ Val(o) # ""

-----------------------------------------------------------------------------
(* str methods *)

Char(s, i) == SubSeq(s, i, i)

\* s.startswith(p)
StartsWith(s, p) == Len(s) >= Len(p) /\ SubSeq(s, 1, Len(p)) = p

\* c in s, for a one-character c
Contains(s, c) == \E i \in 1..Len(s) : Char(s, i) = c

\* s.find(c) + 1 for a one-character c: the first position of c, 0 when absent
IndexOf(s, c) ==
    LET RECURSIVE scan(_)
        scan(i) == IF i > Len(s) THEN 0
                   ELSE IF Char(s, i) = c THEN i
                   ELSE scan(i + 1)
    IN  scan(1)

\* the characters str.strip() removes, among those the model's texts use
Whitespace == {" ", "\t", "\n", "\r", "\f"}

RECURSIVE LStrip(_)
LStrip(s) ==
    IF Len(s) > 0 /\ Char(s, 1) \in Whitespace THEN LStrip(Tail(s)) ELSE s

RECURSIVE RStrip(_)
RStrip(s) ==
    IF Len(s) > 0 /\ Char(s, Len(s)) \in Whitespace
    THEN RStrip(SubSeq(s, 1, Len(s) - 1))
    ELSE s

\* s.strip()
Strip(s) == RStrip(LStrip(s))

\* s.split(sep) for a one-character sep: every separator splits, so leading,
\* trailing and doubled separators give empty strings, and "" gives [""]
RECURSIVE Split(_, _)
Split(s, sep) ==
    LET i == IndexOf(s, sep)
    IN  IF i = 0
        THEN <<s>>
        ELSE <<SubSeq(s, 1, i - 1)>> \o Split(SubSeq(s, i + 1, Len(s)), sep)

\* s.split(sep, 1)
Split1(s, sep) ==
    LET i == IndexOf(s, sep)
    IN  IF i = 0
        THEN <<s>>
        ELSE <<SubSeq(s, 1, i - 1), SubSeq(s, i + 1, Len(s))>>

\* s[1:-1]
Slice1Minus1(s) == SubSeq(s, 2, Len(s) - 1)

-----------------------------------------------------------------------------
(* xml.etree.ElementTree *)

SPARKLE_NS == "http://www.andymatuschak.org/xml-namespaces/sparkle"

\* the prefix map handed to Element.find
namespaces == [sparkle |-> SPARKLE_NS]

sparkle_tag(name) == "{" \o SPARKLE_NS \o "}" \o name

NoAttrib == [k \in {} |-> ""]

\* ET.Element(tag, attrib)
Element(tag, attrib) ==
    [tag |-> tag, text |-> None, attrib |-> attrib, children |-> <<>>]

\* ET.SubElement(parent, tag) followed by child.text = text
TextElement(tag, text) ==
    [tag |-> tag, text |-> Some(text), attrib |-> NoAttrib, children |-> <<>>]

\* element.set(key, value) on the attribute dictionary
SetAttrib(attrib, key, value) ==
    [k \in (DOMAIN attrib) \cup {key} |-> IF k = key THEN value ELSE attrib[k]]

\* element.get(key)
GetAttrib(el, key) ==
    IF key \in DOMAIN el.attrib THEN Some(el.attrib[key]) ELSE None

\* bool(element): an Element is a sequence of its children, so one with no
\* children is falsy, whatever its text
ElementTruthy(o) == ~IsNone(o) /\ Len(Val(o).children) # 0

\* Element.findall(tag): the direct children with that tag, in document order
findall(el, tag) == SelectSeq(el.children, LAMBDA c : c.tag = tag)

\* Element.find(tag): the first direct child with that tag, or None
find(el, tag) ==
    LET found == findall(el, tag)
    IN  IF found = <<>> THEN None ELSE Some(found[1])

\* ElementPath's prefix resolution, Element.find(path, namespaces): a path
\* "prefix:name" is looked up as "{uri}name"
find_ns(el, path, nsmap) ==
    LET i == IndexOf(path, ":")
        prefix == SubSeq(path, 1, i - 1)
    IN  IF i = 0 \/ StartsWith(path, "{")
        THEN find(el, path)
        ELSE find(el, "{" \o nsmap[prefix] \o "}" \o SubSeq(path, i + 1, Len(path)))

\* Element.iter(): the element and all its descendants, in document order
RECURSIVE iter(_)
iter(el) ==
    LET RECURSIVE below(_)
        below(cs) == IF cs = <<>> THEN <<>> ELSE iter(Head(cs)) \o below(Tail(cs))
    IN  <<el>> \o below(el.children)

-----------------------------------------------------------------------------
(* Files, ElementTree.write and ET.parse *)

\* A path holds no file, bytes that are not XML, only the XML declaration
\* (a write that failed after opening the file), or the serialization of a tree.
Absent == [kind |-> "absent"]
Garbage == [kind |-> "garbage"]
DeclarationOnly == [kind |-> "declaration"]
XmlFile(root) == [kind |-> "xml", root |-> root]

\* path.exists()
Exists(file) == file.kind # "absent"

\* Characters XML 1.0 cannot carry (the C0 controls; form feed stands for them)
IllegalXmlChars == {"\f"}

XmlText(s) == \A i \in 1..Len(s) : Char(s, i) \notin IllegalXmlChars

Chars(s) == { Char(s, i) : i \in 1..Len(s) }
NameStartChars == Chars("abcdefghijklmnopqrstuvwxyzABCDEFGHIJKLMNOPQRSTUVWXYZ_")
NameChars == NameStartChars \cup Chars("0123456789-.")

\* an XML name without a prefix
XmlName(s) ==
    /\ Len(s) > 0
    /\ Char(s, 1) \in NameStartChars
    /\ \A i \in 1..Len(s) : Char(s, i) \in NameChars

\* _namespaces.add_qname: a name "{uri}local" is written with a declared
\* prefix; "{" without "}" cannot be unpacked and the write raises
QNameRaises(key) == StartsWith(key, "{") /\ ~Contains(key, "}")

\* the local part of "{uri}local" (rsplit("}", 1)), or the name itself
LocalName(key) ==
    LET RECURSIVE last(_)
        last(i) == IF i = 0 \/ Char(key, i) = "}" THEN i ELSE last(i - 1)
    IN  IF StartsWith(key, "{") THEN SubSeq(key, last(Len(key)) + 1, Len(key)) ELSE key

\* whether the written attribute or tag name reads back: every other name is
\* written as it is, so it has to be a name without an (unbound) prefix
NameReadsBack(key) == XmlName(LocalName(key))

RECURSIVE AnyRaises(_)
AnyRaises(el) ==
    \/ QNameRaises(el.tag)
    \/ \E k \in DOMAIN el.attrib : QNameRaises(k)
    \/ \E i \in 1..Len(el.children) : AnyRaises(el.children[i])

\* the serialization of the tree is well-formed XML
RECURSIVE WellFormed(_)
WellFormed(el) ==
    /\ NameReadsBack(el.tag)
    /\ IsNone(el.text) \/ XmlText(Val(el.text))
    /\ \A k \in DOMAIN el.attrib : NameReadsBack(k) /\ XmlText(el.attrib[k])
    /\ \A i \in 1..Len(el.children) : WellFormed(el.children[i])

\* ElementTree.write(path, xml_declaration=True, encoding="utf-8"): the file
\* is opened and the declaration written before the names are collected
ET_write(root) == IF AnyRaises(root) THEN DeclarationOnly ELSE XmlFile(root)

\* line ends as the parser reports them: "\r\n" and "\r" become "\n"
RECURSIVE NormalizeLineEnds(_)
NormalizeLineEnds(s) ==
    IF s = "" THEN ""
    ELSE IF Char(s, 1) = "\r"
         THEN "\n" \o NormalizeLineEnds(
                        IF Len(s) > 1 /\ Char(s, 2) = "\n"
                        THEN SubSeq(s, 3, Len(s)) ELSE Tail(s))
         ELSE Char(s, 1) \o NormalizeLineEnds(Tail(s))

\* the text the parser gives an element: an element written with text ""
\* is written as an empty element and read with no text
ParseText(t) ==
    IF IsNone(t) \/ Val(t) = "" THEN None ELSE Some(NormalizeLineEnds(Val(t)))

\* attribute values are written with "\r", "\n", "\t" as character
\* references and read back unchanged
RECURSIVE ParseElement(_)
ParseElement(el) ==
    [tag |-> el.tag,
     text |-> ParseText(el.text),
     attrib |-> el.attrib,
     children |-> [i \in 1..Len(el.children) |-> ParseElement(el.children[i])]]

\* ET.parse(path): the tree, or ParseError
ET_parse(file) ==
    IF file.kind = "xml" /\ WellFormed(file.root)
    THEN [ok |-> TRUE, root |-> ParseElement(file.root)]
    ELSE [ok |-> FALSE]

-----------------------------------------------------------------------------
(* update_appcast.py *)

\* os.environ.get(name, default)
EnvGet(o, default) == IF IsNone(o) THEN default ELSE Val(o)

\* attrs[key] = value on a dict kept as its items in insertion order
DictSet(d, key, value) ==
    IF \E i \in 1..Len(d) : d[i][1] = key
    THEN [i \in 1..Len(d) |-> IF d[i][1] = key THEN <<key, value>> ELSE d[i]]
    ELSE Append(d, <<key, value>>)

\* the value of one key=value token: stripped, and with its first and last
\* character dropped when it starts with a double quote
AttrValue(raw) ==
    LET value == Strip(raw)
    IN  IF value # "" /\ Char(value, 1) = "\"" THEN Slice1Minus1(value) ELSE value

\* a faulty variant of the loop: a token that holds no "=" is skipped
RECURSIVE ReadPairsSkipping(_, _)
ReadPairsSkipping(pairs, attrs) ==
    IF pairs = <<>>
    THEN [ok |-> TRUE, attrs |-> attrs]
    ELSE LET kv == Split1(Head(pairs), "=")
         IN  IF Len(kv) # 2
             THEN ReadPairsSkipping(Tail(pairs), attrs)
             ELSE ReadPairsSkipping(Tail(pairs), DictSet(attrs, kv[1], AttrValue(kv[2])))

\* the loop over f.read().split(" "): the dict, or ValueError at the first
\* token that holds no "="
RECURSIVE ReadPairs(_, _)
ReadPairs(pairs, attrs) ==
    IF pairs = <<>>
    THEN [ok |-> TRUE, attrs |-> attrs]
    ELSE LET kv == Split1(Head(pairs), "=")
         IN  IF Len(kv) # 2
             THEN [ok |-> FALSE]
             ELSE ReadPairs(Tail(pairs), DictSet(attrs, kv[1], AttrValue(kv[2])))

\* "Read sign_update output"
ReadSignUpdate(text) == ReadPairs(Split(text, " "), <<>>)

\* the item's sparkle:<name> child as the updater looks it up: a chain of
\* "or" over three lookups, so a found element that has no children of its
\* own is passed over; the third lookup has no prefix map and matches the
\* literal tag only
find_sparkle_child(item, name) ==
    LET first == find(item, sparkle_tag(name))
        second == find_ns(item, "sparkle:" \o name, namespaces)
        third == find(item, "sparkle:" \o name)
    IN  IF ElementTruthy(first) THEN first
        ELSE IF ElementTruthy(second) THEN second
        ELSE third

\* root = ET.Element("rss", {"version": "2.0"})
NewRoot == Element("rss", [version |-> "2.0"])

\* the channel created when the root has none, with its static fields
NewChannel(channel) ==
    [Element("channel", NoAttrib) EXCEPT !.children =
        << TextElement("title", "Inline macOS (" \o channel \o ")"),
           TextElement("link", "https://inline.chat"),
           TextElement("description", "Inline macOS updates") >>]

\* a faulty variant: a channel is appended whether or not the root has one
AppendChannel(root, channel) ==
    [root EXCEPT !.children = Append(@, NewChannel(channel))]

\* root with a channel: the first one it has, or a new one appended
EnsureChannel(root, channel) ==
    IF IsNone(find(root, "channel"))
    THEN [root EXCEPT !.children = Append(@, NewChannel(channel))]
    ELSE root

\* "Remove any existing item with the same build number"
ItemMatches(item, build) ==
    LET version_el == find_sparkle_child(item, "version")
    IN  ~IsNone(version_el) /\ Val(version_el).text = Some(build)

\* a faulty variant of the removal loop: every item is removed
RemoveItems(channel_el, build) ==
    [channel_el EXCEPT !.children = SelectSeq(@, LAMBDA c : c.tag # "item")]

RemoveExisting(channel_el, build) ==
    [channel_el EXCEPT !.children =
        SelectSeq(@, LAMBDA c : ~(c.tag = "item" /\ ItemMatches(c, build)))]

\* a faulty variant: the key is set as it is, prefix included
AttribKeyPlain(key) == key

\* the enclosure attribute an attrs key is set as
AttribKey(key) ==
    IF StartsWith(key, "sparkle:")
    THEN sparkle_tag(Split1(key, ":")[2])
    ELSE key

\* enclosure.set(...) for url, type and then attrs.items() in order
RECURSIVE SetAll(_, _)
SetAll(attrib, attrs) ==
    IF attrs = <<>> THEN attrib
    ELSE SetAll(SetAttrib(attrib, AttribKey(Head(attrs)[1]), Head(attrs)[2]),
                Tail(attrs))

Enclosure(dmg_url, attrs) ==
    Element("enclosure",
            SetAll(SetAttrib(SetAttrib(NoAttrib, "url", dmg_url),
                             "type", "application/octet-stream"),
                   attrs))

\* the new item and its children, in the order they are added
NewItem(build, version, min_macos, commit, dmg_url, now, attrs) ==
    [Element("item", NoAttrib) EXCEPT !.children =
        << TextElement("title", "Inline " \o version),
           TextElement("pubDate", now),
           TextElement(sparkle_tag("version"), build),
           TextElement(sparkle_tag("shortVersionString"), version),
           TextElement(sparkle_tag("minimumSystemVersion"), min_macos) >>
        \o (IF commit # ""
            THEN << TextElement("description",
                       "<p>Build " \o build \o " from commit " \o commit \o ".</p>") >>
            ELSE << >>)
        \o << Enclosure(dmg_url, attrs) >>]

\* position of the first child with the tag (the child find() returns)
FirstIndex(el, tag) ==
    CHOOSE i \in 1..Len(el.children) :
        el.children[i].tag = tag /\ \A j \in 1..(i - 1) : el.children[j].tag # tag

\* the tree after the removal loop and the append to channel_el
Upsert(root0, channel, item, build) ==
    LET root == EnsureChannel(root0, channel)
        c == FirstIndex(root, "channel")
    IN  [root EXCEPT !.children[c] =
            [RemoveExisting(@, build) EXCEPT !.children = Append(@, item)]]

StdErr(text) == <<"stderr", text>>
WriteFile == <<"write", "APPCAST_OUTPUT">>

\* an uncaught exception: the traceback on stderr, exit code 1
Raise(effects, exception, out) ==
    [rc |-> 1, effects |-> Append(effects, StdErr(exception)), out |-> out]

\* the fixed part of the warning; the path and the parser's message follow it
ParseWarning == "Warning: failed to parse existing appcast"

\* a faulty variant of the load: a document that does not parse is dropped
\* without a warning
LoadSilently(file) ==
    IF Exists(file) /\ ET_parse(file).ok
    THEN [root |-> ET_parse(file).root, warned |-> << >>]
    ELSE [root |-> NewRoot, warned |-> << >>]

\* "Load existing appcast or create new": the root to work on and what was
\* printed; a document that fails to parse is replaced by a new root after
\* the warning
LoadExisting(file) ==
    IF ~Exists(file) THEN [root |-> NewRoot, warned |-> << >>]
    ELSE LET parsed == ET_parse(file)
         IN  IF parsed.ok
             THEN [root |-> parsed.root, warned |-> << >>]
             ELSE [root |-> NewRoot, warned |-> << StdErr(ParseWarning) >>]

\* One run of the script.  env holds the environment variables (None when
\* unset), sign_update the text of the file at SIGN_UPDATE_PATH (None when the
\* file cannot be opened), now the strftime of the clock, file what
\* APPCAST_PATH holds.  The result is the exit code, the effects in order and
\* what the run left at APPCAST_OUTPUT (None: the path was not touched).
update_appcast(env, sign_update, now, file) ==
    IF IsNone(env.INLINE_BUILD) THEN Raise(<<>>, "KeyError: 'INLINE_BUILD'", None)
    ELSE IF IsNone(env.INLINE_DMG_URL) THEN Raise(<<>>, "KeyError: 'INLINE_DMG_URL'", None)
    ELSE IF IsNone(sign_update) THEN Raise(<<>>, "FileNotFoundError", None)
    ELSE
    LET build == Val(env.INLINE_BUILD)
        version == EnvGet(env.INLINE_VERSION, build)
        channel == EnvGet(env.INLINE_CHANNEL, "stable")
        dmg_url == Val(env.INLINE_DMG_URL)
        min_macos == EnvGet(env.INLINE_MIN_MACOS, "15.0")
        commit == EnvGet(env.INLINE_COMMIT, "")
        read == ReadSignUpdate(Val(sign_update))
    IN  IF ~read.ok THEN Raise(<<>>, "ValueError", None)
        ELSE
        LET loaded == LoadExisting(file)
            warned == loaded.warned
            root0 == loaded.root
            item == NewItem(build, version, min_macos, commit, dmg_url, now, read.attrs)
            root == Upsert(root0, channel, item, build)
            written == ET_write(root)
        IN  IF written = DeclarationOnly
            THEN Raise(Append(warned, WriteFile), "ValueError", Some(written))
            ELSE [rc |-> 0, effects |-> Append(warned, WriteFile), out |-> Some(written)]

-----------------------------------------------------------------------------
(* validate_appcast.py *)

\* the validator's lookup of an item's sparkle:<name> child: the second
\* lookup is made only when the first one found nothing
validate_find_sparkle_child(item, name) ==
    LET element == find(item, sparkle_tag(name))
    IN  IF IsNone(element)
        THEN find_ns(item, "sparkle:" \o name, namespaces)
        ELSE element

\* some element's tag or some attribute's name is in the Sparkle namespace
has_sparkle_namespace(root) ==
    LET els == iter(root)
        prefix == "{" \o SPARKLE_NS \o "}"
    IN  \E i \in 1..Len(els) :
            \/ StartsWith(els[i].tag, prefix)
            \/ \E attr \in DOMAIN els[i].attrib : StartsWith(attr, prefix)

\* return 1 after print(message, file=sys.stderr); of the two messages that
\* end with the path or with the parser's message, the fixed part is kept
Fail(message) == [rc |-> 1, stderr |-> <<message>>]
Success == [rc |-> 0, stderr |-> << >>]

\* any(...) over the items for --require-build
HasBuild(items, require_build) ==
    \E i \in 1..Len(items) :
        LET version_el == validate_find_sparkle_child(items[i], "version")
        IN  ~IsNone(version_el) /\ Val(version_el).text = Some(require_build)

\* a faulty variant: only the first item is looked at
HasUrlOfFirst(items, require_url) ==
    LET enclosure == find(items[1], "enclosure")
    IN  ~IsNone(enclosure) /\ GetAttrib(Val(enclosure), "url") = Some(require_url)

\* any(...) over the items for --require-url
HasUrl(items, require_url) ==
    \E i \in 1..Len(items) :
        LET enclosure == find(items[i], "enclosure")
        IN  ~IsNone(enclosure) /\ GetAttrib(Val(enclosure), "url") = Some(require_url)

\* a faulty variant: an element counts as filled whatever its text
NoElement(el) == IsNone(el)

\* not (el.text or "").strip(), for an element that may be None
BlankText(el) == IsNone(el) \/ Strip(OrStr(Val(el).text, "")) = ""

\* the body of "for item in items" for one item: the diagnostic of its first
\* missing field, or None
CheckItem(item) ==
    LET version_el == validate_find_sparkle_child(item, "version")
        short_el == validate_find_sparkle_child(item, "shortVersionString")
        enclosure == find(item, "enclosure")
    IN  IF BlankText(version_el) THEN Some("Missing sparkle:version")
        ELSE IF BlankText(short_el) THEN Some("Missing sparkle:shortVersionString")
        ELSE IF IsNone(enclosure) THEN Some("Missing enclosure")
        ELSE
        LET url == GetAttrib(Val(enclosure), "url")
            signed == GetAttrib(Val(enclosure), sparkle_tag("edSignature"))
            edsig == IF Truthy(signed) THEN signed
                     ELSE GetAttrib(Val(enclosure), "sparkle:edSignature")
            length == GetAttrib(Val(enclosure), "length")
        IN  IF ~Truthy(url) THEN Some("Missing enclosure url")
            ELSE IF ~Truthy(edsig) THEN Some("Missing sparkle:edSignature")
            ELSE IF ~Truthy(length) THEN Some("Missing enclosure length")
            ELSE None

\* a faulty variant of the loop: the items are checked from the last one
RECURSIVE CheckItemsFromLast(_)
CheckItemsFromLast(items) ==
    IF items = <<>> THEN Success
    ELSE LET problem == CheckItem(items[Len(items)])
         IN  IF IsNone(problem)
             THEN CheckItemsFromLast(SubSeq(items, 1, Len(items) - 1))
             ELSE Fail(Val(problem))

\* the loop over the items: it returns at the first item with a diagnostic
RECURSIVE CheckItems(_)
CheckItems(items) ==
    IF items = <<>> THEN Success
    ELSE LET problem == CheckItem(Head(items))
         IN  IF IsNone(problem) THEN CheckItems(Tail(items)) ELSE Fail(Val(problem))

\* main(): file is what --appcast names, require_build and require_url are
\* the optional arguments (None when not given).  The exit code and what
\* was printed to stderr.
main(file, require_build, require_url) ==
    IF ~Exists(file) THEN Fail("Appcast not found")
    ELSE
    LET tree == ET_parse(file)
    IN  IF ~tree.ok THEN Fail("Appcast XML parse error")
        ELSE IF ~has_sparkle_namespace(tree.root)
        THEN Fail("Appcast missing Sparkle namespace usage")
        ELSE
        LET channel == find(tree.root, "channel")
        IN  IF IsNone(channel) THEN Fail("Appcast missing <channel>")
            ELSE
            LET items == findall(Val(channel), "item")
            IN  IF items = <<>> THEN Fail("Appcast has no <item> entries")
                ELSE IF Truthy(require_build) /\ ~HasBuild(items, Val(require_build))
                THEN Fail("Appcast missing build " \o Val(require_build))
                ELSE IF Truthy(require_url) /\ ~HasUrl(items, Val(require_url))
                THEN Fail("Appcast missing enclosure URL " \o Val(require_url))
                ELSE CheckItems(items)

-----------------------------------------------------------------------------
(* Inputs: environments, sign_update files, existing feed documents *)

MaxRuns == 2       \* Feed Updater processes in one behaviour of the pipeline
MaxItems == 2      \* items in an existing feed document
MaxFreshRuns == 3  \* Feed Updater processes from the pipeline's first release

GoodUrl == "https://example.com/app-42.dmg"
OtherUrl == "https://example.com/old.dmg"

\* sign_update's output for a list of <<key, value>>: key="value" tokens
\* separated by one space
RECURSIVE SignText(_)
SignText(pairs) ==
    IF pairs = << >> THEN ""
    ELSE Head(pairs)[1] \o "=\"" \o Head(pairs)[2] \o "\""
         \o (IF Len(pairs) > 1 THEN " " \o SignText(Tail(pairs)) ELSE "")

Signature == <<"sparkle:edSignature", "c2lnbg==">>
Length == <<"length", "1234">>
GoodSign == SignText(<< Signature, Length >>)

\* the signature and length alone; with keys the updater sets itself; without
\* a signature or a length; with an empty length; with a key whose prefix is
\* not declared; with a key that cannot be serialized; with a repeated key;
\* with two keys that name one attribute
SignedPairs ==
    { << Signature, Length >>,
      << Signature, Length, <<"url", OtherUrl>> >>,
      << Signature, Length, <<"type", "application/x-apple-diskimage">> >>,
      << Length >>,
      << Signature >>,
      << Signature, <<"length", "">> >>,
      << Signature, Length, <<"dsa:signature", "x">> >>,
      << Signature, Length, <<"{x", "1">> >>,
      << Signature, Length, <<"length", "99">> >>,
      << Signature, <<sparkle_tag("edSignature"), "other">>, Length >> }

Clock == {"Sun, 01 Nov 2026 05:18:46 +0000"}

Env(build, version, channel, dmg_url, commit) ==
    [INLINE_BUILD |-> build, INLINE_VERSION |-> version, INLINE_CHANNEL |-> channel,
     INLINE_DMG_URL |-> dmg_url, INLINE_MIN_MACOS |-> None, INLINE_COMMIT |-> commit]

\* the pipeline's runs: two builds, each with the version and the channel
\* left to their defaults or both set
PipelineEnvs ==
    { Env(Some(b), vc[1], vc[2], Some(GoodUrl), None) :
        b \in {"41", "42"}, vc \in { <<None, None>>, <<Some("1.2.0"), Some("beta")>> } }

PipelineSigns == { Some(GoodSign) }

\* a single run: unset and empty variables, blank texts, a carriage return
\* and a character XML cannot carry
RunEnvs ==
    { Env(b, v, None, u, c) :
        b \in {None, Some("42"), Some(""), Some(" "), Some("4\r2"), Some("4\f2")},
        v \in {None, Some("1.2.0"), Some("")},
        u \in {None, Some(GoodUrl), Some("")},
        c \in {None, Some("abc1234")} }

\* sign_update files: none; sign_update's output, also with the final
\* newline; unquoted and unbalanced values; a doubled space; a token with no
\* "="; the empty file; an empty key
RunSigns ==
    { None } \cup { Some(SignText(pairs)) : pairs \in SignedPairs }
    \cup { Some(GoodSign \o "\n"),
           Some("sparkle:edSignature=c2lnbg== length=1234"),
           Some("sparkle:edSignature=\"c2lnbg== length=\""),
           Some("sparkle:edSignature=\"c2lnbg==\"  length=\"1234\""),
           Some("sparkle:edSignature=\"c2lnbg==\" length"),
           Some(""),
           Some(GoodSign \o " =\"x\"") }

\* items as a parser reads them from an existing document
SeedItem(build, version, dmg_url, sign) ==
    ParseElement(NewItem(build, version, "15.0", "", dmg_url,
                         "Sat, 31 Oct 2026 10:00:00 +0000", ReadSignUpdate(sign).attrs))

Item41 == SeedItem("41", "1.1.0", OtherUrl, GoodSign)
Item42 == SeedItem("42", "1.1.9", OtherUrl, GoodSign)

\* the first child of el tagged tag, and el with that child replaced
Child(el, tag) == el.children[FirstIndex(el, tag)]
WithChild(el, tag, child) ==
    [el EXCEPT !.children[FirstIndex(el, tag)] = child]

WithoutChild(el, tag) ==
    [el EXCEPT !.children = SelectSeq(@, LAMBDA c : c.tag # tag)]

WithText(el, tag, text) ==
    WithChild(el, tag, [Child(el, tag) EXCEPT !.text = text])

WithoutAttrib(el, key) ==
    WithChild(el, "enclosure",
        [Child(el, "enclosure") EXCEPT !.attrib = [k \in (DOMAIN @) \ {key} |-> @[k]]])

WithAttrib(el, key, value) ==
    WithChild(el, "enclosure",
        [Child(el, "enclosure") EXCEPT !.attrib = SetAttrib(@, key, value)])

\* <sparkle:version>42<i/></sparkle:version>: a version element with a child
Item42Nested ==
    WithChild(Item42, sparkle_tag("version"),
        [Child(Item42, sparkle_tag("version")) EXCEPT
            !.children = << Element("i", NoAttrib) >>])

ItemNoVersion == WithoutChild(Item41, sparkle_tag("version"))
ItemBlankVersion == WithText(Item41, sparkle_tag("version"), Some(" \n"))
ItemEmptyVersion == WithText(Item41, sparkle_tag("version"), None)
ItemNoShort == WithoutChild(Item41, sparkle_tag("shortVersionString"))
ItemBlankShort == WithText(Item41, sparkle_tag("shortVersionString"), Some(" "))
ItemNoEnclosure == WithoutChild(Item41, "enclosure")
ItemNoUrl == WithoutAttrib(Item41, "url")
ItemEmptyUrl == WithAttrib(Item41, "url", "")
ItemNoSignature == WithoutAttrib(Item41, sparkle_tag("edSignature"))
ItemNoLength == WithoutAttrib(Item41, "length")
ItemEmptyLength == WithAttrib(Item41, "length", "")

\* the items of the pipeline's existing documents, and of the validator's
PipelineItems == { Item41, Item42, Item42Nested, ItemNoVersion }

ValidatorItems ==
    { Item41, Item42, Item42Nested, ItemNoVersion, ItemBlankVersion, ItemEmptyVersion,
      ItemNoShort, ItemBlankShort, ItemNoEnclosure, ItemNoUrl, ItemEmptyUrl,
      ItemNoSignature, ItemNoLength, ItemEmptyLength }

SeqsUpTo(S, n) == UNION { [1..k -> S] : k \in 0..n }

\* a document: rss, an optional sparkle:marker element, an optional channel
\* with its static fields and the items
Feed(marker, hasChannel, items) ==
    [NewRoot EXCEPT !.children =
        (IF marker THEN << Element(sparkle_tag("marker"), NoAttrib) >> ELSE << >>)
        \o (IF hasChannel
            THEN << [NewChannel("stable") EXCEPT !.children = @ \o items] >>
            ELSE << >>)]

\* a document with a second channel after the first
TwoChannels(items) ==
    [Feed(FALSE, TRUE, items) EXCEPT !.children = Append(@, NewChannel("beta"))]

PipelineFeeds ==
    {Absent, Garbage, XmlFile(NewRoot), XmlFile(TwoChannels(<< >>))}
    \cup { XmlFile(Feed(FALSE, TRUE, items)) : items \in SeqsUpTo(PipelineItems, MaxItems) }

\* the documents a single run finds: none, bytes that are not XML, a
\* document holding a character XML cannot carry, a root without a channel,
\* one or two channels without items, the build 42 already there, an item
\* without a signature
RunFeeds ==
    { Absent, Garbage,
      XmlFile(Feed(FALSE, TRUE, << WithText(Item41, "title", Some("Inline \f")) >>)),
      XmlFile(NewRoot),
      XmlFile(Feed(FALSE, TRUE, << >>)),
      XmlFile(TwoChannels(<< >>)),
      XmlFile(Feed(FALSE, TRUE, << Item42 >>)),
      XmlFile(Feed(FALSE, TRUE, << Item41, ItemNoSignature >>)) }

\* the validator's documents: none, bytes that are not XML, a root with or
\* without a channel and with or without a use of the namespace outside any
\* item, and channels of up to MaxItems items
ValidatorFeeds ==
    {Absent, Garbage}
    \cup { XmlFile(Feed(m, c, << >>)) : m \in BOOLEAN, c \in BOOLEAN }
    \cup { XmlFile(Feed(FALSE, TRUE, items)) : items \in SeqsUpTo(ValidatorItems, MaxItems) }

RequiredBuilds == {None, Some(""), Some("42")}
RequiredUrls == {None, Some(""), Some(OtherUrl), Some(GoodUrl)}

-----------------------------------------------------------------------------
(* The processes *)

NoRun == [started |-> FALSE]
NoValidation == [started |-> FALSE]

\* python3 update_appcast.py, with the environment and the sign_update file
\* drawn from the given sets
Update(envs, signs, limit) ==
    /\ runs < limit
    /\ \E env \in envs, sign_update \in signs, now \in Clock :
          \E r \in {update_appcast(env, sign_update, now, appcast)} :
              /\ run' = [started |-> TRUE, env |-> env, sign_update |-> sign_update,
                         now |-> now, rc |-> r.rc, effects |-> r.effects]
              /\ output' = IF IsNone(r.out) THEN output ELSE Val(r.out)
    /\ runs' = runs + 1
    /\ validation' = NoValidation
    /\ UNCHANGED appcast

\* python3 validate_appcast.py --appcast <path> [--require-build b] [--require-url u]
Validate(path, require_build, require_url) ==
    \E r \in {main(IF path = "APPCAST_PATH" THEN appcast ELSE output,
                     require_build, require_url)} :
        /\ validation' = [started |-> TRUE, appcast |-> path,
                          require_build |-> require_build, require_url |-> require_url,
                          rc |-> r.rc, stderr |-> r.stderr]
        /\ UNCHANGED <<appcast, output, run, runs>>

\* the pipeline publishes the written document; the next run finds it at
\* APPCAST_PATH
Promote ==
    /\ run.started /\ run.rc = 0
    /\ appcast' = output
    /\ run' = NoRun
    /\ validation' = NoValidation
    /\ UNCHANGED <<output, runs>>

PipelineRun == Update(PipelineEnvs, PipelineSigns, MaxRuns)

\* the pipeline validates what the run wrote, requiring the run's build and URL
ValidateOutput ==
    /\ run.started /\ ~validation.started
    /\ Validate("APPCAST_OUTPUT", run.env.INLINE_BUILD, run.env.INLINE_DMG_URL)

Init ==
    /\ appcast \in PipelineFeeds
    /\ output = Absent
    /\ run = NoRun
    /\ validation = NoValidation
    /\ runs = 0

Next == PipelineRun \/ ValidateOutput \/ Promote

Spec == Init /\ [][Next]_vars

\* the pipeline from its first release: no feed document yet
InitFresh ==
    /\ appcast = Absent
    /\ output = Absent
    /\ run = NoRun
    /\ validation = NoValidation
    /\ runs = 0

FreshRun == Update(PipelineEnvs, PipelineSigns, MaxFreshRuns)
NextFresh == FreshRun \/ ValidateOutput \/ Promote
SpecFresh == InitFresh /\ [][NextFresh]_vars

\* one run on any of the inputs, then the validator on its output
SingleRun == Update(RunEnvs, RunSigns, 1)

InitRun ==
    /\ appcast \in RunFeeds
    /\ output \in {Absent, XmlFile(Feed(FALSE, TRUE, << Item41 >>))}
    /\ run = NoRun
    /\ validation = NoValidation
    /\ runs = 0

NextRun == SingleRun \/ ValidateOutput

SpecRun == InitRun /\ [][NextRun]_vars

\* the validator on any of the documents with any of the arguments
ValidateAny ==
    /\ ~validation.started
    /\ \E b \in RequiredBuilds, u \in RequiredUrls : Validate("APPCAST_PATH", b, u)

InitValidator ==
    /\ appcast \in ValidatorFeeds
    /\ output = Absent
    /\ run = NoRun
    /\ validation = NoValidation
    /\ runs = 0

NextValidator == ValidateAny

SpecValidator == InitValidator /\ [][NextValidator]_vars

-----------------------------------------------------------------------------
(* The vocabulary of the properties *)

\* the last updater process exited with code 0
Completed == run.started /\ run.rc = 0

\* the run's parameters: the display version defaults to the build identifier
runBuild == Val(run.env.INLINE_BUILD)
runVersion == EnvGet(run.env.INLINE_VERSION, runBuild)
runUrl == Val(run.env.INLINE_DMG_URL)

\* The existing feed document as a reader finds it: [ok |-> FALSE] when it is
\* absent or not well-formed, else its tree.  The properties bind it once
\* (\A old \in {Existing}) and speak of old.ok and old.root.
Existing == IF Exists(appcast) THEN ET_parse(appcast) ELSE [ok |-> FALSE]
Malformed == Exists(appcast) /\ ~ET_parse(appcast).ok

Channels(root) == findall(root, "channel")

\* the items of the document's channel
ItemsOf(root) ==
    IF Channels(root) = << >> THEN << >> ELSE findall(Channels(root)[1], "item")

\* the items of a document that may be missing
ItemsIn(doc) == IF doc.ok THEN ItemsOf(doc.root) ELSE << >>

\* the text of an item's first child with the tag, None without such a child
ChildText(item, tag) ==
    LET found == findall(item, tag)
    IN  IF found = << >> THEN None ELSE found[1].text

BuildOf(item) == ChildText(item, sparkle_tag("version"))
ShortOf(item) == ChildText(item, sparkle_tag("shortVersionString"))

\* an attribute of an item's enclosure, None without enclosure or attribute
EnclosureAttr(item, key) ==
    LET found == findall(item, "enclosure")
    IN  IF found = << >> \/ key \notin DOMAIN found[1].attrib
        THEN None ELSE Some(found[1].attrib[key])

\* positions of the items that carry the build identifier
WithBuild(items, build) == { i \in 1..Len(items) : BuildOf(items[i]) = Some(build) }

\* the mapping the run read from its sign_update file, as <<key, value>>
Mapping == ReadSignUpdate(Val(run.sign_update)).attrs
Keys(mapping) == { mapping[i][1] : i \in 1..Len(mapping) }

\* the attribute a key of the mapping stands for
ExpectedName(key) ==
    IF StartsWith(key, "sparkle:")
    THEN "{" \o SPARKLE_NS \o "}" \o SubSeq(key, Len("sparkle:") + 1, Len(key))
    ELSE key

\* the item the run appended: the last child of the written channel
AppendedItem ==
    LET ch == Channels(output.root)[1]
    IN  ch.children[Len(ch.children)]

NonBlank(o) == ~IsNone(o) /\ Strip(Val(o)) # ""
NonEmpty(o) == ~IsNone(o) /\ Val(o) # ""

\* the required fields of one item (condition 7 of the validator)
CompleteItem(item) ==
    /\ NonBlank(BuildOf(item))
    /\ NonBlank(ShortOf(item))
    /\ NonEmpty(EnclosureAttr(item, "url"))
    /\ NonEmpty(EnclosureAttr(item, sparkle_tag("edSignature")))
    /\ NonEmpty(EnclosureAttr(item, "length"))

AllComplete(items) == \A i \in 1..Len(items) : CompleteItem(items[i])

-----------------------------------------------------------------------------
(* C1 *)

\* C1 (as claimed): when the existing document holds exactly one item with
\* the run's build identifier, the run replaces it: as many items as before,
\* exactly one with that build, and it carries the run's display version,
\* download URL and enclosure attributes.
C1_UpsertReplacesPriorItem ==
    Completed =>
        \A old \in {ItemsIn(Existing)}, items \in {ItemsOf(output.root)} :
            Cardinality(WithBuild(old, runBuild)) = 1 =>
                /\ Len(items) = Len(old)
                /\ Cardinality(WithBuild(items, runBuild)) = 1
                /\ \A i \in WithBuild(items, runBuild) :
                     /\ ShortOf(items[i]) = Some(runVersion)
                     /\ EnclosureAttr(items[i], "url") = Some(runUrl)
                     /\ \A k \in Keys(Mapping) :
                          ~IsNone(EnclosureAttr(items[i], ExpectedName(k)))

-----------------------------------------------------------------------------
(* C2 *)

OneItemPerBuild(file) ==
    file.kind = "xml" =>
        \A items \in {ItemsOf(file.root)} :
            /\ Len(Channels(file.root)) = 1
            /\ \A i, j \in 1..Len(items) : i # j => BuildOf(items[i]) # BuildOf(items[j])

\* C2 (as claimed): from an absent feed document, whatever runs follow, each
\* on the output of the one before, every document has exactly one channel
\* and at most one item per build identifier.
C2_AtMostOneItemPerBuild == OneItemPerBuild(appcast) /\ OneItemPerBuild(output)

-----------------------------------------------------------------------------
(* C3 *)

\* a key of the mapping that is an XML name, with or without "sparkle:"
KeyIsName(key) ==
    \/ XmlName(key)
    \/ StartsWith(key, "sparkle:") /\ XmlName(SubSeq(key, Len("sparkle:") + 1, Len(key)))

Has(mapping, key) == \E i \in 1..Len(mapping) : mapping[i][1] = key /\ mapping[i][2] # ""

\* every text the run writes can be carried by XML
RunTextsXml(mapping) ==
    /\ \A name \in DOMAIN run.env : IsNone(run.env[name]) \/ XmlText(Val(run.env[name]))
    /\ XmlText(run.now)
    /\ \A i \in 1..Len(mapping) : XmlText(mapping[i][2])

\* what the round trip needs of the run's inputs and of the existing document
RoundTripInputs ==
    /\ NonBlank(run.env.INLINE_BUILD) /\ ~Contains(runBuild, "\r")
    /\ NonBlank(Some(runVersion))
    /\ runUrl # ""
    /\ \A mapping \in {Mapping} :
         /\ RunTextsXml(mapping)
         /\ Has(mapping, "sparkle:edSignature") /\ Has(mapping, "length")
         /\ "url" \notin Keys(mapping)
         /\ \A k \in Keys(mapping) : KeyIsName(k)
    /\ AllComplete(ItemsIn(Existing))

ValidatedOutput ==
    /\ Completed /\ validation.started /\ validation.appcast = "APPCAST_OUTPUT"
    /\ validation.require_build = run.env.INLINE_BUILD
    /\ validation.require_url = run.env.INLINE_DMG_URL

\* C3 (as claimed): the validator, given the build and URL of a run that
\* completed, accepts the document the run wrote, whatever the inputs were.
C3_RoundTripAlways == ValidatedOutput => validation.rc = 0

\* C3 (amended): it accepts the document when the build and version are not
\* blank, the URL is not empty, the build holds no carriage return, every
\* text is made of characters XML can carry, the mapping has a non-empty
\* sparkle:edSignature and length, no url key and only XML names as keys, and
\* every item already in the existing channel has the required fields.
C3_RoundTripOnValidInputs ==
    (ValidatedOutput /\ RoundTripInputs) => validation.rc = 0 /\ validation.stderr = << >>

C3_Witness ==
    /\ ValidatedOutput /\ RoundTripInputs
    /\ Len(ItemsIn(Existing)) > 0
    /\ validation.rc = 0

-----------------------------------------------------------------------------
(* C4 and C5: the validator's seven conditions, on the document it was given *)

Validated == validation.started /\ validation.appcast = "APPCAST_PATH"

\* the tag of the element, or the name of one of its attributes, or of an
\* element below it, is in the Sparkle namespace
RECURSIVE UsesSparkle(_)
UsesSparkle(el) ==
    LET InSparkle(name) == StartsWith(name, "{" \o SPARKLE_NS \o "}")
    IN  \/ InSparkle(el.tag)
        \/ \E k \in DOMAIN el.attrib : InSparkle(k)
        \/ \E i \in 1..Len(el.children) : UsesSparkle(el.children[i])

SomeItemHasBuild(items, build) ==
    \E i \in 1..Len(items) : BuildOf(items[i]) = build

SomeItemHasUrl(items, url) ==
    \E i \in 1..Len(items) : EnclosureAttr(items[i], "url") = url

\* conditions 5 and 6 as claimed: for every required build or URL that was given
Cond5Given(items) ==
    ~IsNone(validation.require_build) => SomeItemHasBuild(items, validation.require_build)
Cond6Given(items) ==
    ~IsNone(validation.require_url) => SomeItemHasUrl(items, validation.require_url)

\* conditions 5 and 6 for a required build or URL that is not empty
Cond5(items) ==
    NonEmpty(validation.require_build) => SomeItemHasBuild(items, validation.require_build)
Cond6(items) ==
    NonEmpty(validation.require_url) => SomeItemHasUrl(items, validation.require_url)

\* The number of the first condition that fails for the document, 0 when
\* none does: 1 the file exists and parses, 2 the namespace is used, 3 there
\* is a channel, 4 there is an item, 5 the required build, 6 the required
\* URL, 7 the fields of every item.  c5 and c6 say whether conditions 5 and
\* 6 hold of the document's items.
FirstFailing(doc, c5, c6) ==
    IF ~doc.ok THEN 1
    ELSE IF ~UsesSparkle(doc.root) THEN 2
    ELSE IF Channels(doc.root) = << >> THEN 3
    ELSE IF ItemsOf(doc.root) = << >> THEN 4
    ELSE IF ~c5 THEN 5
    ELSE IF ~c6 THEN 6
    ELSE IF ~AllComplete(ItemsOf(doc.root)) THEN 7
    ELSE 0

\* C4 (as claimed): the validator succeeds exactly when the seven conditions
\* hold, a required build or URL counting whenever one was given.
C4_SuccessIffConditionsGiven ==
    Validated =>
        /\ validation.rc \in {0, 1}
        /\ validation.rc = 0 <=>
              \A doc \in {Existing} :
                  FirstFailing(doc, Cond5Given(ItemsIn(doc)), Cond6Given(ItemsIn(doc))) = 0

\* C4 (amended): the validator succeeds exactly when the seven conditions
\* hold, a required build or URL counting only when it is not empty; every
\* other case is a failure, so a document without items, one that does not
\* use the namespace and one with an item that lacks a required field fail.
C4_SuccessIffConditions ==
    Validated =>
        \A doc \in {Existing} :
            /\ validation.rc \in {0, 1}
            /\ validation.rc = 0 <=>
                  FirstFailing(doc, Cond5(ItemsIn(doc)), Cond6(ItemsIn(doc))) = 0
            /\ (doc.ok /\ ( \/ ~UsesSparkle(doc.root)
                            \/ ItemsOf(doc.root) = << >>
                            \/ ~AllComplete(ItemsOf(doc.root)) ))
                 => validation.rc = 1

C4_Witness ==
    /\ Validated /\ validation.rc = 0
    /\ NonEmpty(validation.require_build) /\ NonEmpty(validation.require_url)
    /\ Len(ItemsIn(Existing)) > 1

\* the diagnostics of the fields an item lacks
MissingFields(item) ==
    (IF NonBlank(BuildOf(item)) THEN {} ELSE {"Missing sparkle:version"})
    \cup (IF NonBlank(ShortOf(item)) THEN {} ELSE {"Missing sparkle:shortVersionString"})
    \cup (IF findall(item, "enclosure") # << >> THEN {} ELSE {"Missing enclosure"})
    \cup (IF NonEmpty(EnclosureAttr(item, "url")) THEN {} ELSE {"Missing enclosure url"})
    \cup (IF NonEmpty(EnclosureAttr(item, sparkle_tag("edSignature")))
          THEN {} ELSE {"Missing sparkle:edSignature"})
    \cup (IF NonEmpty(EnclosureAttr(item, "length")) THEN {} ELSE {"Missing enclosure length"})

\* the first item, in document order, that lacks a field
FirstIncomplete(items) ==
    items[CHOOSE i \in 1..Len(items) :
            /\ ~CompleteItem(items[i])
            /\ \A j \in 1..(i - 1) : CompleteItem(items[j])]

\* the diagnostics that report condition n
Diagnostics(doc, n) ==
    CASE n = 1 -> IF Exists(appcast) THEN {"Appcast XML parse error"} ELSE {"Appcast not found"}
      [] n = 2 -> {"Appcast missing Sparkle namespace usage"}
      [] n = 3 -> {"Appcast missing <channel>"}
      [] n = 4 -> {"Appcast has no <item> entries"}
      [] n = 5 -> {"Appcast missing build " \o Val(validation.require_build)}
      [] n = 6 -> {"Appcast missing enclosure URL " \o Val(validation.require_url)}
      [] n = 7 -> MissingFields(FirstIncomplete(ItemsOf(doc.root)))

\* one diagnostic, that of condition n, and exit code 1; none and 0 for n = 0
ReportsOnly(doc, n) ==
    IF n = 0
    THEN validation.rc = 0 /\ validation.stderr = << >>
    ELSE /\ validation.rc = 1
         /\ Len(validation.stderr) = 1
         /\ validation.stderr[1] \in Diagnostics(doc, n)

\* C5 (as claimed): a failing validator reports exactly one diagnostic, that
\* of the lowest-numbered failing condition, and exits with 1; with no
\* failing condition it reports nothing and exits with 0.  A required build
\* or URL counts whenever one was given.
C5_FirstFailingConditionGiven ==
    Validated =>
        \A doc \in {Existing} :
            \A n \in {FirstFailing(doc, Cond5Given(ItemsIn(doc)), Cond6Given(ItemsIn(doc)))} :
                /\ validation.rc # 0 => ReportsOnly(doc, n)
                /\ n = 0 => ReportsOnly(doc, 0)

\* C5 (amended): the same, a required build or URL counting only when it is
\* not empty; the diagnostic of condition 7 is one of the fields the first
\* incomplete item lacks.
C5_FirstFailingCondition ==
    Validated =>
        \A doc \in {Existing} :
            ReportsOnly(doc, FirstFailing(doc, Cond5(ItemsIn(doc)), Cond6(ItemsIn(doc))))

C5_Witness ==
    /\ Validated /\ validation.rc = 1
    /\ \A items \in {ItemsIn(Existing)} :
         /\ items # << >>
         /\ ~Cond5(items) /\ ~Cond6(items) /\ ~AllComplete(items)
    /\ validation.stderr = << "Appcast missing build " \o Val(validation.require_build) >>

-----------------------------------------------------------------------------
(* C6 *)

\* the run found no item: no document, or one without items in its channel
EmptyBefore(old) ==
    \/ ~Exists(appcast)
    \/ old.ok /\ Len(Channels(old.root)) <= 1 /\ ItemsOf(old.root) = << >>

\* C6: a run that completes on an absent document, or on a document whose
\* channel has no items, writes a document with exactly one channel and
\* exactly one item, whose build identifier is the run's; a reader of the
\* written file finds the same channel and item whenever the file parses.
C6_FirstItem ==
    Completed =>
        \A old \in {Existing} :
            EmptyBefore(old) =>
                /\ WriteFile \in { run.effects[i] : i \in 1..Len(run.effects) }
                /\ output.kind = "xml"
                /\ Len(Channels(output.root)) = 1
                /\ Len(ItemsOf(output.root)) = 1
                /\ BuildOf(ItemsOf(output.root)[1]) = Some(runBuild)
                /\ \A back \in {ET_parse(output)} :
                     back.ok => /\ Len(Channels(back.root)) = 1
                                /\ Len(ItemsOf(back.root)) = 1
                                /\ BuildOf(ItemsOf(back.root)[1]) \in
                                     { Some(NormalizeLineEnds(runBuild)),
                                       IF runBuild = "" THEN None ELSE Some(runBuild) }

C6_Witness ==
    /\ Completed /\ Exists(appcast)
    /\ \A old \in {Existing} : old.ok /\ Len(Channels(old.root)) = 1 /\ ItemsOf(old.root) = << >>
    /\ Len(ItemsOf(output.root)) = 1
    /\ runBuild = "42"

-----------------------------------------------------------------------------
(* C7 *)

\* a freshly created document: a new root, a new channel with the static
\* fields, and one item, for the run's build
FreshDocument(root) ==
    /\ root.tag = "rss" /\ root.attrib = [version |-> "2.0"] /\ Len(root.children) = 1
    /\ \A ch \in {root.children[1]} :
         /\ ch.tag = "channel" /\ Len(ch.children) = 4
         /\ ch.children[1].tag = "title"
         /\ ch.children[1].text =
              Some("Inline macOS (" \o OrStr(run.env.INLINE_CHANNEL, "stable") \o ")")
         /\ ch.children[2].tag = "link"
         /\ ch.children[2].text = Some("https://inline.chat")
         /\ ch.children[3].tag = "description"
         /\ ch.children[3].text = Some("Inline macOS updates")
         /\ ch.children[4].tag = "item"
         /\ BuildOf(ch.children[4]) = Some(runBuild)

\* C7: on an existing document that is not well-formed XML, a run either
\* ends before it writes anything, with exit code 1, or it first emits the
\* warning and then writes; the document of a run that completes is a
\* freshly created one.
C7_WarnsBeforeFreshDocument ==
    (run.started /\ Malformed) =>
        \/ /\ run.rc = 1
           /\ WriteFile \notin { run.effects[i] : i \in 1..Len(run.effects) }
        \/ /\ Len(run.effects) >= 2
           /\ run.effects[1] = StdErr(ParseWarning)
           /\ run.effects[2] = WriteFile
           /\ run.rc = 0 => (output.kind = "xml" /\ FreshDocument(output.root))

C7_Witness ==
    /\ Completed /\ appcast = Garbage
    /\ run.effects = << StdErr(ParseWarning), WriteFile >>
    /\ FreshDocument(output.root)

-----------------------------------------------------------------------------
(* C8 *)

\* a token of the sign_update file without "="
TokenWithoutEquals(text) ==
    \E tokens \in {Split(text, " ")} :
        \E i \in 1..Len(tokens) : ~Contains(tokens[i], "=")

\* a failure to read the inputs of run r: a required variable is unset, the
\* sign_update file cannot be read, or one of its tokens has no "="
InputFailure(r) ==
    \/ IsNone(r.env.INLINE_BUILD)
    \/ IsNone(r.env.INLINE_DMG_URL)
    \/ IsNone(r.sign_update)
    \/ TokenWithoutEquals(Val(r.sign_update))

\* C8 (as claimed): a failure to read the inputs, or a malformed existing
\* document, ends the run as a fatal error without the output being written.
C8_NoPartialRecovery ==
    [][ (runs' # runs /\ (InputFailure(run') \/ Malformed))
            => (run'.rc # 0 /\ output' = output) ]_vars

\* C8 (amended): a failure to read the inputs ends the run with exit code 1
\* and a traceback as its only effect, the output path left as it was; a
\* malformed existing document is not fatal: with readable inputs the run
\* emits the warning and writes the output.
C8_InputFailureIsFatal ==
    [][ runs' # runs =>
          /\ InputFailure(run') =>
               /\ run'.rc = 1
               /\ output' = output
               /\ Len(run'.effects) = 1 /\ run'.effects[1][1] = "stderr"
          /\ (Malformed /\ ~InputFailure(run')) =>
               /\ Len(run'.effects) >= 2
               /\ run'.effects[1] = StdErr(ParseWarning)
               /\ run'.effects[2] = WriteFile
               /\ output' # output ]_vars

C8_Witness ==
    /\ run.started /\ run.rc = 1
    /\ ~IsNone(run.env.INLINE_BUILD) /\ ~IsNone(run.env.INLINE_DMG_URL)
    /\ ~IsNone(run.sign_update) /\ TokenWithoutEquals(Val(run.sign_update))
    /\ Malformed
    /\ output = XmlFile(Feed(FALSE, TRUE, << Item41 >>))

-----------------------------------------------------------------------------
(* C9 *)

\* the attributes of the appended item's enclosure
EnclosureNames(item) == DOMAIN findall(item, "enclosure")[1].attrib

\* C9 (as claimed): the new item's enclosure carries the run's download URL
\* as its url attribute and every pair of the mapping, under the attribute
\* its key stands for.
C9_UrlAndEveryPair ==
    Completed =>
        \A item \in {AppendedItem}, mapping \in {Mapping} :
            /\ EnclosureAttr(item, "url") = Some(runUrl)
            /\ \A i \in 1..Len(mapping) :
                 EnclosureAttr(item, ExpectedName(mapping[i][1])) = Some(mapping[i][2])

\* the pair is the last of the mapping that stands for its attribute
LastFor(mapping, i) ==
    \A j \in (i + 1)..Len(mapping) :
        ExpectedName(mapping[j][1]) # ExpectedName(mapping[i][1])

\* the mapping of a file of key="value" tokens: for every key, the value of
\* its last token, without the quotes
MappingOf(mapping, pairs) ==
    /\ Keys(mapping) = Keys(pairs)
    /\ \A i \in 1..Len(pairs) :
         (\A j \in (i + 1)..Len(pairs) : pairs[j][1] # pairs[i][1])
            => \E k \in 1..Len(mapping) : mapping[k] = pairs[i]

\* C9 (amended): the enclosure carries every pair of the mapping under the
\* attribute its key stands for, except a pair that a later key standing for
\* the same attribute overrides; its url is the run's download URL and its
\* type application/octet-stream unless a key of the mapping stands for url
\* or type, whose value then replaces the updater's own; it has no other
\* attribute.  The mapping of key="value" tokens has the values unquoted.
C9_PairsOverrideUrl ==
    Completed =>
        \A item \in {AppendedItem}, mapping \in {Mapping} :
            /\ \A i \in 1..Len(mapping) :
                 LastFor(mapping, i) =>
                    EnclosureAttr(item, ExpectedName(mapping[i][1])) = Some(mapping[i][2])
            /\ "url" \notin Keys(mapping) => EnclosureAttr(item, "url") = Some(runUrl)
            /\ "type" \notin Keys(mapping)
                 => EnclosureAttr(item, "type") = Some("application/octet-stream")
            /\ EnclosureNames(item) = {"url", "type"} \cup { ExpectedName(k) : k \in Keys(mapping) }
            /\ \A pairs \in SignedPairs :
                 run.sign_update \in {Some(SignText(pairs)), Some(SignText(pairs) \o "\n")}
                    => MappingOf(mapping, pairs)

C9_Witness ==
    /\ Completed
    /\ run.sign_update = Some(SignText(<< Signature, Length, <<"url", OtherUrl>> >>))
    /\ runUrl = GoodUrl
    /\ EnclosureAttr(AppendedItem, "url") = Some(OtherUrl)
    /\ EnclosureAttr(AppendedItem, sparkle_tag("edSignature")) = Some("c2lnbg==")

-----------------------------------------------------------------------------
(* C10 *)

\* the children a run for the build has no reason to touch: all but the
\* items that carry the build
Others(children, build) ==
    SelectSeq(children, LAMBDA c : ~(c.tag = "item" /\ BuildOf(c) = Some(build)))

AllButLast(seq) == SubSeq(seq, 1, Len(seq) - 1)

\* C10: a run that completes on a document with a channel keeps every child
\* of the channel but items of its own build (the static fields as they
\* were, whatever the channel name of the run; the other items with their
\* fields, in their order), retains nothing the channel did not hold, places
\* its new item after them, and leaves the rest of the document as it was.
C10_OnlyOwnBuildChanges ==
    Completed =>
        \A old \in {Existing} :
            (old.ok /\ Channels(old.root) # << >>) =>
                \A c \in {FirstIndex(old.root, "channel")} :
                \A before \in {old.root.children[c].children},
                   after \in {output.root.children[c].children} :
                    /\ Len(after) > 0
                    /\ Others(AllButLast(after), runBuild) = Others(before, runBuild)
                    /\ \A i \in 1..(Len(after) - 1) :
                         \E j \in 1..Len(before) : before[j] = after[i]
                    /\ after[Len(after)].tag = "item"
                    /\ BuildOf(after[Len(after)]) = Some(runBuild)
                    /\ ShortOf(after[Len(after)]) = Some(runVersion)
                    /\ output.root.tag = old.root.tag
                    /\ output.root.attrib = old.root.attrib
                    /\ Len(output.root.children) = Len(old.root.children)
                    /\ \A i \in 1..Len(old.root.children) :
                         i # c => output.root.children[i] = old.root.children[i]
                    /\ output.root.children[c].tag = "channel"
                    /\ output.root.children[c].attrib = old.root.children[c].attrib

C10_Witness ==
    /\ Completed
    /\ run.env.INLINE_CHANNEL = Some("beta")
    /\ runBuild = "42"
    /\ \A old \in {ItemsIn(Existing)}, new \in {ItemsOf(output.root)} :
         /\ Len(old) = 2 /\ BuildOf(old[1]) = Some("41") /\ BuildOf(old[2]) = Some("42")
         /\ Len(old[2].children[3].children) > 0
         /\ Len(new) = 2 /\ new[1] = old[1]
    /\ ChildText(Channels(output.root)[1], "title") = Some("Inline macOS (stable)")

=============================================================================
